---- MODULE Spec2Model ----
(***************************************************************************)
(* boilr: the command handlers of src/index.ts (the default command, the   *)
(* config subcommand, runMainFlow), ConfigService, the AbstractSchema zod  *)
(* schemas, and AiService (aiService.ts).                                  *)
(*                                                                         *)
(* Text is a sequence of one-character strings, so that trim, toLowerCase, *)
(* includes, the project-name regular expression and the template strings  *)
(* of the error messages are computed as the code computes them.           *)
(***************************************************************************)
EXTENDS Integers, Sequences, FiniteSets, TLC

\* ------------------------------------------------------------------ bounds

\* Longest project name typed at the prompt (SpecNames).
MaxNameLen == 2
\* Longest feedback typed at the review prompt (SpecFeedback).
MaxFeedbackLen == 3
\* Most pieces a transport failure's message is made of (SpecErrors).
MaxMsgParts == 2
\* Most models in a model reply, most fields in a model (SpecSchemas).
MaxModels == 2
MaxFields == 1
\* Most reviseSchema calls in one run.
MaxRevisions == 2

\* -------------------------------------------------------------------- text

\* JavaScript's String.prototype.trim strips white space from both ends.
WhiteSpace == {" ", "\t", "\n"}

Range(s) == {s[i] : i \in 1..Len(s)}

UpperCase == <<"A","B","C","D","E","F","G","H","I","J","K","L","M","N","O","P","Q","R","S","T","U","V","W","X","Y","Z">>
LowerCase == <<"a","b","c","d","e","f","g","h","i","j","k","l","m","n","o","p","q","r","s","t","u","v","w","x","y","z">>
Digits == {"0","1","2","3","4","5","6","7","8","9"}

MinOf(S) == CHOOSE x \in S : \A y \in S : x <= y
MaxOf(S) == CHOOSE x \in S : \A y \in S : x >= y

\* input.trim()
Trim(s) ==
  LET keep == {i \in 1..Len(s) : s[i] \notin WhiteSpace}
  IN IF keep = {} THEN << >> ELSE SubSeq(s, MinOf(keep), MaxOf(keep))

LowerOf ==
  [u \in Range(UpperCase) |-> LowerCase[CHOOSE i \in 1..Len(UpperCase) : UpperCase[i] = u]]

ToLowerChar(c) == IF c \in DOMAIN LowerOf THEN LowerOf[c] ELSE c

\* s.toLowerCase()
ToLowerCase(s) == [i \in 1..Len(s) |-> ToLowerChar(s[i])]

\* s.includes(sub)
Includes(s, sub) ==
  \E i \in 0..(Len(s) - Len(sub)) : SubSeq(s, i + 1, i + Len(sub)) = sub

\* every sequence of length 0..n over the set S
RECURSIVE SeqsUpTo(_, _)
SeqsUpTo(S, n) ==
  IF n = 0 THEN {<< >>}
  ELSE LET shorter == SeqsUpTo(S, n - 1)
       IN shorter \cup {Append(t, c) : t \in shorter, c \in S}

\* the concatenation of a sequence of texts
RECURSIVE Concat(_)
Concat(parts) ==
  IF parts = << >> THEN << >> ELSE Head(parts) \o Concat(Tail(parts))

\* --------------------------------------------------- literals of the source

ApproveLooksGood == <<"l","o","o","k","s"," ","g","o","o","d">>
ApproveYes == <<"y","e","s">>
ApproveY == <<"y">>
ApproveApprove == <<"a","p","p","r","o","v","e">>
ApproveOk == <<"o","k">>

Txt401 == <<"4","0","1">>
TxtUnauthorized == <<"U","n","a","u","t","h","o","r","i","z","e","d">>
Txt429 == <<"4","2","9">>
TxtRateLimit == <<"r","a","t","e"," ","l","i","m","i","t">>
TxtAuthHead == <<"A","I"," ","c","a","l","l"," ","f","a","i","l","e","d","."," ","Y","o","u","r"," ","A","P","I"," ","k","e","y"," ","f","o","r"," ">>
TxtAuthTail == <<" ","s","e","e","m","s"," ","t","o"," ","b","e"," ","i","n","v","a","l","i","d","."," ","P","l","e","a","s","e"," ","r","u","n"," ","'","b","o","i","l","r"," ","c","o","n","f","i","g","'"," ","t","o"," ","u","p","d","a","t","e"," ","i","t",".">>
TxtRateLimited == <<"A","I"," ","c","a","l","l"," ","f","a","i","l","e","d"," ","d","u","e"," ","t","o"," ","r","a","t","e"," ","l","i","m","i","t","i","n","g","."," ","P","l","e","a","s","e"," ","t","r","y"," ","a","g","a","i","n"," ","i","n"," ","a"," ","m","o","m","e","n","t",".">>
TxtFailedTo == <<"F","a","i","l","e","d"," ","t","o"," ">>
TxtColon == <<":"," ">>
CtxGenerate == <<"g","e","n","e","r","a","t","e"," ","s","c","h","e","m","a">>
CtxRevise == <<"r","e","v","i","s","e"," ","s","c","h","e","m","a">>
TxtKeyNotFound == <<" ","A","P","I"," ","k","e","y"," ","n","o","t"," ","f","o","u","n","d"," ","i","n"," ","c","o","n","f","i","g","."," ","P","l","e","a","s","e"," ","r","u","n"," ","\"","b","o","i","l","r"," ","c","o","n","f","i","g","\""," ","t","o"," ","s","e","t"," ","i","t"," ","u","p",".">>
TxtGemini == <<"G","e","m","i","n","i">>
TxtOpenAI == <<"O","p","e","n","A","I">>
TxtAnthropic == <<"A","n","t","h","r","o","p","i","c">>
TxtUnsupported == <<"U","n","s","u","p","p","o","r","t","e","d"," ","L","L","M"," ","p","r","o","v","i","d","e","r",":"," ">>
TxtNotFound == <<"C","o","n","f","i","g"," ","f","i","l","e"," ","n","o","t"," ","f","o","u","n","d"," ","a","t"," ","~","/",".","b","o","i","l","r","/","c","o","n","f","i","g",".","y","a","m","l">>
TxtInvalidStructure == <<"I","n","v","a","l","i","d"," ","c","o","n","f","i","g"," ","f","i","l","e"," ","s","t","r","u","c","t","u","r","e">>
TxtNameEmpty == <<"P","r","o","j","e","c","t"," ","n","a","m","e"," ","c","a","n","n","o","t"," ","b","e"," ","e","m","p","t","y">>
TxtNameChars == <<"P","r","o","j","e","c","t"," ","n","a","m","e"," ","c","a","n"," ","o","n","l","y"," ","c","o","n","t","a","i","n"," ","l","e","t","t","e","r","s",","," ","n","u","m","b","e","r","s",","," ","h","y","p","h","e","n","s",","," ","a","n","d"," ","u","n","d","e","r","s","c","o","r","e","s">>
TxtIdeaEmpty == <<"A","p","p"," ","d","e","s","c","r","i","p","t","i","o","n"," ","c","a","n","n","o","t"," ","b","e"," ","e","m","p","t","y">>
TxtFeedbackEmpty == <<"P","l","e","a","s","e"," ","p","r","o","v","i","d","e"," ","f","e","e","d","b","a","c","k"," ","o","r"," ","a","p","p","r","o","v","e"," ","t","h","e"," ","s","c","h","e","m","a">>

\* what the user is told to run, in both setup messages
TxtBoilrConfig == <<"b","o","i","l","r"," ","c","o","n","f","i","g">>

\* ------------------------------------------------------------ schema types

\* FieldTypeSchema: the z.enum of field types
FieldTypes ==
  {"serial", "integer", "bigint", "text", "varchar", "boolean", "date",
   "timestamp", "decimal", "float", "json", "jsonb", "uuid"}

\* FieldSchema.parse on a field whose name is a string: the type must be in the
\* enumeration; primaryKey, notNull and unique default to false.
FieldOk(f) == f.type \in FieldTypes

ParseField(f) ==
  [name       |-> f.name,
   type       |-> f.type,
   primaryKey |-> IF "primaryKey" \in DOMAIN f THEN f.primaryKey ELSE FALSE,
   notNull    |-> IF "notNull" \in DOMAIN f THEN f.notNull ELSE FALSE,
   unique     |-> IF "unique" \in DOMAIN f THEN f.unique ELSE FALSE]

\* ModelSchema without .min(1) on fields
ModelOk_NoMin(m) == \A i \in 1..Len(m.fields) : FieldOk(m.fields[i])

\* ModelSchema: fields is z.array(FieldSchema).min(1)
ModelOk(m) == Len(m.fields) >= 1 /\ \A i \in 1..Len(m.fields) : FieldOk(m.fields[i])

ParseModel(m) ==
  [name |-> m.name, fields |-> [i \in 1..Len(m.fields) |-> ParseField(m.fields[i])]]

\* AbstractSchemaSchema: models is z.array(ModelSchema).min(1)
SchemaOk(r) == Len(r.models) >= 1 /\ \A i \in 1..Len(r.models) : ModelOk(r.models[i])

ParseSchema(r) == [models |-> [i \in 1..Len(r.models) |-> ParseModel(r.models[i])]]

\* the declared, not yet assigned `let schema`
NoSchema == [models |-> << >>]

\* ------------------------------------------------------------------ config

\* Config['llmProvider']
Providers == {"gemini", "openai", "anthropic"}

NoKeys == [p \in {} |-> ""]

NoConfig == [llmProvider |-> "", apiKeys |-> NoKeys]

\* `${llmProvider}` in a template string
ProviderText(p) ==
  CASE p = "gemini" -> <<"g","e","m","i","n","i">>
    [] p = "openai" -> <<"o","p","e","n","a","i">>
    [] p = "anthropic" -> <<"a","n","t","h","r","o","p","i","c">>
    [] p = "mistral" -> <<"m","i","s","t","r","a","l">>
    [] OTHER -> << >>

\* KeyMissing testing only for an absent key (apiKey === undefined)
KeyMissing_AbsentOnly(apiKeys, p) == p \notin DOMAIN apiKeys

\* apiKeys.gemini and the like: the key, or undefined, and `!apiKey`
KeyMissing(apiKeys, p) == p \notin DOMAIN apiKeys \/ apiKeys[p] = ""

\* AiService.initializeModel: the error it throws, or none
InitializeModel(cfg) ==
  LET p == cfg.llmProvider IN
  CASE p = "gemini" ->
         IF KeyMissing(cfg.apiKeys, "gemini")
         THEN [ok |-> FALSE, error |-> TxtGemini \o TxtKeyNotFound]
         ELSE [ok |-> TRUE, error |-> << >>]
    [] p = "openai" ->
         IF KeyMissing(cfg.apiKeys, "openai")
         THEN [ok |-> FALSE, error |-> TxtOpenAI \o TxtKeyNotFound]
         ELSE [ok |-> TRUE, error |-> << >>]
    [] p = "anthropic" ->
         IF KeyMissing(cfg.apiKeys, "anthropic")
         THEN [ok |-> FALSE, error |-> TxtAnthropic \o TxtKeyNotFound]
         ELSE [ok |-> TRUE, error |-> << >>]
    [] OTHER -> [ok |-> FALSE, error |-> TxtUnsupported \o ProviderText(p)]

\* ------------------------------------------------------- prompt validators

\* [a-z0-9-_] under the i flag
NameChars == Range(LowerCase) \cup Range(UpperCase) \cup Digits \cup {"-", "_"}

\* /^[a-z0-9-_]+$/i.test(s)
NameRegexTest(s) == Len(s) >= 1 /\ \A i \in 1..Len(s) : s[i] \in NameChars

\* A validate callback's result: true, or the message shown under the prompt.
Accept == [ok |-> TRUE, message |-> << >>]
Reject(msg) == [ok |-> FALSE, message |-> msg]

\* ValidateProjectName without the test of the characters
ValidateProjectName_NoPattern(input) ==
  IF Trim(input) = << >> THEN Reject(TxtNameEmpty) ELSE Accept

\* validate of the projectName prompt
ValidateProjectName(input) ==
  IF Trim(input) = << >> THEN Reject(TxtNameEmpty)
  ELSE IF ~NameRegexTest(Trim(input)) THEN Reject(TxtNameChars)
  ELSE Accept

\* validate of the idea prompt
ValidateIdea(input) ==
  IF Trim(input) = << >> THEN Reject(TxtIdeaEmpty) ELSE Accept

\* validate of the response prompt
ValidateResponse(input) ==
  IF Trim(input) = << >> THEN Reject(TxtFeedbackEmpty) ELSE Accept

\* NormalizeResponse without the lower-casing
NormalizeResponse_NoLowerCase(input) == Trim(input)

\* approvalAnswer.response.trim().toLowerCase()
NormalizeResponse(input) == ToLowerCase(Trim(input))

\* the approval test of the revision loop, on the normalized response
IsApproval(response) ==
  \/ response = ApproveLooksGood
  \/ response = ApproveYes
  \/ response = ApproveY
  \/ response = ApproveApprove
  \/ response = ApproveOk

\* -------------------------------------------------------------- AiService

\* What the provider does with one request: it replies with an object, or the
\* request fails.  `message` is the message of the failure (for a reply, of the
\* error generateObject raises when the reply does not match the schema).
Reply(r, msg) == [kind |-> "reply", reply |-> r, isError |-> TRUE, message |-> msg]
Failure(isErr, msg) == [kind |-> "fail", reply |-> NoSchema, isError |-> isErr, message |-> msg]

NoThrow == [isError |-> FALSE, message |-> << >>, cause |-> "none"]

\* generateObject({model, system, prompt, schema: AbstractSchemaSchema}): the
\* validated object, or what it throws.
GenerateObject(resp) ==
  IF resp.kind = "reply"
  THEN IF SchemaOk(resp.reply)
       THEN [threw |-> FALSE, object |-> ParseSchema(resp.reply), thrown |-> NoThrow]
       ELSE [threw |-> TRUE, object |-> NoSchema,
             thrown |-> [isError |-> TRUE, message |-> resp.message, cause |-> "validation"]]
  ELSE [threw |-> TRUE, object |-> NoSchema,
        thrown |-> [isError |-> resp.isError, message |-> resp.message, cause |-> "transport"]]

\* MapError testing for the rate limit before the rejected key
MapError_RateLimitFirst(thrown, errorContext, provider) ==
  IF thrown.isError /\ (Includes(thrown.message, Txt429) \/ Includes(thrown.message, TxtRateLimit))
  THEN TxtRateLimited
  ELSE IF thrown.isError /\ (Includes(thrown.message, Txt401) \/ Includes(thrown.message, TxtUnauthorized))
  THEN TxtAuthHead \o ProviderText(provider) \o TxtAuthTail
  ELSE TxtFailedTo \o errorContext \o TxtColon \o thrown.message

\* the catch block of generateSchemaWithPrompt: the message of the error it throws
MapError(thrown, errorContext, provider) ==
  IF thrown.isError /\ (Includes(thrown.message, Txt401) \/ Includes(thrown.message, TxtUnauthorized))
  THEN TxtAuthHead \o ProviderText(provider) \o TxtAuthTail
  ELSE IF thrown.isError /\ (Includes(thrown.message, Txt429) \/ Includes(thrown.message, TxtRateLimit))
  THEN TxtRateLimited
  ELSE TxtFailedTo \o errorContext \o TxtColon \o thrown.message

\* generateSchemaWithPrompt(systemPrompt, userPrompt, errorContext)
GenerateSchemaWithPrompt(resp, errorContext, provider) ==
  LET got == GenerateObject(resp) IN
  IF got.threw
  THEN [ok |-> FALSE, schema |-> NoSchema, thrown |-> got.thrown,
        error |-> MapError(got.thrown, errorContext, provider)]
  ELSE [ok |-> TRUE, schema |-> got.object, thrown |-> NoThrow, error |-> << >>]

\* The request generateSchema(idea) / reviseSchema(schema, request) builds.
NoRequest == [op |-> "none", idea |-> << >>, schema |-> NoSchema, request |-> << >>]
GenerateRequest(i) == [op |-> "generate", idea |-> i, schema |-> NoSchema, request |-> << >>]
ReviseRequest(sch, req) == [op |-> "revise", idea |-> << >>, schema |-> sch, request |-> req]

\* ReviseCall passing the normalized response instead of the answer as typed
ReviseCall_Normalized(sch, answer) == ReviseRequest(sch, NormalizeResponse(answer))

\* the arguments runMainFlow passes to ai.reviseSchema
ReviseCall(sch, answer) == ReviseRequest(sch, answer)

\* ------------------------------------------------------------------- state

VARIABLES
  command,      \* the subcommand of this run: "main" or "config"
  pc,           \* where the run is
  fileExists,   \* ~/.boilr/config.yaml exists
  fileContent,  \* what yaml.parse makes of it
  sawConfig,    \* the result of configExists() in the default command
  reads,        \* fs.readFile calls on the configuration file
  writes,       \* fs.writeFile calls on the configuration file
  wizProvider,  \* the provider chosen in the wizard
  hasConfig,    \* `config` is assigned
  config,
  typed,        \* the text last submitted at the open prompt (a new prompt opens empty)
  nameInput,    \* the input the projectName prompt accepted
  promptError,  \* the validation message shown under the prompt
  projectName,
  idea,
  schema,       \* the held schema
  printed,      \* the schema last passed to printSchema
  lastReturned, \* the schema last returned by a model call
  request,      \* the request to the model that is in flight
  genCalls,     \* generateSchema calls
  revCalls,     \* reviseSchema calls
  thrown,       \* what generateObject threw
  errorOut,     \* the message console.error printed
  exit          \* "running", "exit0" or "exit1"

vars ==
  <<command, pc, fileExists, fileContent, sawConfig, reads, writes, wizProvider,
    hasConfig, config, typed, nameInput, promptError, projectName, idea, schema, printed,
    lastReturned, request, genCalls, revCalls, thrown, errorOut, exit>>

fileVars == <<fileExists, fileContent, sawConfig, reads, writes, wizProvider>>
flowVars == <<typed, nameInput, promptError, projectName, idea>>
schemaVars == <<schema, printed, lastReturned>>
callVars == <<request, genCalls, revCalls, thrown>>

\* What yaml.parse makes of the file: an object with or without the two
\* properties, null (an empty document), or a syntax error.
ObjectFile(hasP, p, hasK, k) ==
  [kind |-> "object", hasProvider |-> hasP, llmProvider |-> p, hasApiKeys |-> hasK, apiKeys |-> k]
NullFile == [kind |-> "null", hasProvider |-> FALSE, llmProvider |-> "", hasApiKeys |-> FALSE, apiKeys |-> NoKeys]
MalformedFile == [kind |-> "malformed", hasProvider |-> FALSE, llmProvider |-> "", hasApiKeys |-> FALSE, apiKeys |-> NoKeys]

\* yaml.parse(yaml.stringify(config))
FileOf(cfg) == ObjectFile(TRUE, cfg.llmProvider, TRUE, cfg.apiKeys)

TxtYamlError == <<"Y","A","M","L","P","a","r","s","e","E","r","r","o","r">>
TxtNullProperty == <<"C","a","n","n","o","t"," ","r","e","a","d"," ","p","r","o","p","e","r","t","i","e","s"," ","o","f"," ","n","u","l","l">>
TxtWriteFailed == <<"E","A","C","C","E","S",":"," ","p","e","r","m","i","s","s","i","o","n"," ","d","e","n","i","e","d">>

\* the catch of a command's action: console.error, process.exit(1)
Fail(msg) ==
  /\ pc' = "Failed"
  /\ errorOut' = msg
  /\ exit' = "exit1"

InitOver(U) ==
  /\ command \in U.commands
  /\ \E f \in U.files : fileExists = f.exists /\ fileContent = f.content
  /\ pc = "Start"
  /\ sawConfig = FALSE
  /\ reads = 0
  /\ writes = 0
  /\ wizProvider = ""
  /\ hasConfig = FALSE
  /\ config = NoConfig
  /\ typed = << >>
  /\ nameInput = << >>
  /\ promptError = << >>
  /\ projectName = << >>
  /\ idea = << >>
  /\ schema = NoSchema
  /\ printed = NoSchema
  /\ lastReturned = NoSchema
  /\ request = NoRequest
  /\ genCalls = 0
  /\ revCalls = 0
  /\ thrown = NoThrow
  /\ errorOut = << >>
  /\ exit = "running"

\* ----------------------------------------------------- the command handlers

\* Dispatch with the default command running the wizard whether or not the
\* file exists
Dispatch_AlwaysWizard ==
  /\ pc = "Start"
  /\ IF command = "config"
     THEN pc' = "WizardProvider" /\ sawConfig' = sawConfig
     ELSE /\ sawConfig' = fileExists
          /\ pc' = "WizardProvider"
  /\ UNCHANGED <<command, fileExists, fileContent, reads, writes, wizProvider,
                 hasConfig, config, errorOut, exit>>
  /\ UNCHANGED <<flowVars, schemaVars, callVars>>

\* program.command('config').action and program.action, up to their first await
Dispatch ==
  /\ pc = "Start"
  /\ IF command = "config"
     THEN pc' = "WizardProvider" /\ sawConfig' = sawConfig
     ELSE /\ sawConfig' = fileExists
          /\ pc' = IF fileExists THEN "ReadConfig" ELSE "WizardProvider"
  /\ UNCHANGED <<command, fileExists, fileContent, reads, writes, wizProvider,
                 hasConfig, config, errorOut, exit>>
  /\ UNCHANGED <<flowVars, schemaVars, callVars>>

\* ConfigService.readConfig: what it returns or throws
ReadConfigResult(exists, content) ==
  IF ~exists THEN [ok |-> FALSE, read |-> FALSE, config |-> NoConfig, error |-> TxtNotFound]
  ELSE IF content.kind = "malformed"
  THEN [ok |-> FALSE, read |-> TRUE, config |-> NoConfig, error |-> TxtYamlError]
  ELSE IF content.kind = "null"
  THEN [ok |-> FALSE, read |-> TRUE, config |-> NoConfig, error |-> TxtNullProperty]
  ELSE IF \/ ~content.hasProvider \/ content.llmProvider = "" \/ ~content.hasApiKeys
  THEN [ok |-> FALSE, read |-> TRUE, config |-> NoConfig, error |-> TxtInvalidStructure]
  ELSE [ok |-> TRUE, read |-> TRUE, error |-> << >>,
        config |-> [llmProvider |-> content.llmProvider, apiKeys |-> content.apiKeys]]

\* program.action: config = await configService.readConfig(), then runMainFlow
\* up to its first prompt
ReadConfig ==
  /\ pc = "ReadConfig"
  /\ LET r == ReadConfigResult(fileExists, fileContent) IN
       /\ reads' = IF r.read THEN reads + 1 ELSE reads
       /\ IF r.ok
          THEN /\ config' = r.config
               /\ hasConfig' = TRUE
               /\ pc' = "CollectProjectName"
               /\ UNCHANGED <<errorOut, exit>>
          ELSE /\ Fail(r.error)
               /\ UNCHANGED <<config, hasConfig>>
  /\ UNCHANGED <<command, fileExists, fileContent, sawConfig, writes, wizProvider>>
  /\ UNCHANGED <<flowVars, schemaVars, callVars>>

\* runFirstRunWizard: the provider list prompt
WizardProvider(U) ==
  /\ pc = "WizardProvider"
  /\ \E p \in U.providers : wizProvider' = p
  /\ pc' = "WizardApiKey"
  /\ UNCHANGED <<command, fileExists, fileContent, sawConfig, reads, writes,
                 hasConfig, config, errorOut, exit>>
  /\ UNCHANGED <<flowVars, schemaVars, callVars>>

\* the Config runFirstRunWizard builds
WizardConfig(provider, apiKey) ==
  [llmProvider |-> provider, apiKeys |-> (provider :> apiKey)]

\* runFirstRunWizard: the password prompt, writeConfig, and the caller's
\* continuation (the config command ends; the default command starts runMainFlow)
WizardApiKey(U) ==
  /\ pc = "WizardApiKey"
  /\ \E apiKey \in U.keys, written \in U.writeOutcomes :
       LET cfg == WizardConfig(wizProvider, apiKey) IN
       /\ writes' = writes + 1
       /\ IF written
          THEN /\ fileExists' = TRUE
               /\ fileContent' = FileOf(cfg)
               /\ IF command = "config"
                  THEN /\ pc' = "ConfigSaved"
                       /\ exit' = "exit0"
                       /\ UNCHANGED <<config, hasConfig, errorOut>>
                  ELSE /\ config' = cfg
                       /\ hasConfig' = TRUE
                       /\ pc' = "CollectProjectName"
                       /\ UNCHANGED <<errorOut, exit>>
          ELSE /\ Fail(TxtWriteFailed)
               /\ UNCHANGED <<fileExists, fileContent, config, hasConfig>>
  /\ UNCHANGED <<command, sawConfig, reads, wizProvider>>
  /\ UNCHANGED <<flowVars, schemaVars, callVars>>

\* ------------------------------------------------------------- runMainFlow

\* the projectName prompt: one submitted input
EnterProjectName(U) ==
  /\ pc = "CollectProjectName"
  /\ \E input \in U.names :
       LET v == ValidateProjectName(input) IN
       /\ promptError' = v.message
       /\ IF v.ok
          THEN /\ nameInput' = input
               /\ projectName' = Trim(input)
               /\ typed' = << >>
               /\ pc' = "CollectIdea"
          ELSE /\ typed' = input
               /\ UNCHANGED <<nameInput, projectName, pc>>
  /\ UNCHANGED <<command, hasConfig, config, idea, errorOut, exit>>
  /\ UNCHANGED <<fileVars, schemaVars, callVars>>

\* the idea prompt: one submitted input; once accepted, new AiService(config)
\* and the call of ai.generateSchema(idea)
EnterIdea(U) ==
  /\ pc = "CollectIdea"
  /\ \E input \in U.ideas :
       LET v == ValidateIdea(input)
           ai == InitializeModel(config)
       IN
       /\ typed' = input
       /\ promptError' = v.message
       /\ IF ~v.ok
          THEN UNCHANGED <<idea, pc, genCalls, request, errorOut, exit>>
          ELSE /\ idea' = Trim(input)
               /\ IF ai.ok
                  THEN /\ genCalls' = genCalls + 1
                       /\ request' = GenerateRequest(Trim(input))
                       /\ pc' = "Generating"
                       /\ UNCHANGED <<errorOut, exit>>
                  ELSE /\ Fail(ai.error)
                       /\ UNCHANGED <<genCalls, request>>
  /\ UNCHANGED <<command, hasConfig, config, nameInput, projectName, revCalls, thrown>>
  /\ UNCHANGED <<fileVars, schemaVars>>

\* ModelCallReturns with a failed revision going back to the review prompt with
\* the last good schema
ModelCallReturns_Resume(U, at, errorContext) ==
  /\ pc = at
  /\ \E resp \in U.responses :
       LET r == GenerateSchemaWithPrompt(resp, errorContext, config.llmProvider) IN
       /\ thrown' = r.thrown
       /\ IF r.ok
          THEN /\ schema' = r.schema
               /\ lastReturned' = r.schema
               /\ printed' = r.schema
               /\ typed' = << >>
               /\ pc' = "Reviewing"
               /\ UNCHANGED <<errorOut, exit>>
          ELSE IF at = "Revising"
          THEN /\ pc' = "Reviewing"
               /\ typed' = << >>
               /\ UNCHANGED <<schema, lastReturned, printed, errorOut, exit>>
          ELSE /\ Fail(r.error)
               /\ UNCHANGED <<schema, lastReturned, printed, typed>>
  /\ request' = NoRequest
  /\ UNCHANGED <<command, hasConfig, config, genCalls, revCalls>>
  /\ UNCHANGED <<fileVars, nameInput, promptError, projectName, idea>>

\* What the loop does with the outcome of a model call: on success the schema is
\* assigned and the next iteration prints it and prompts; on failure the error
\* is rethrown to the action's catch.
ModelCallReturns(U, at, errorContext) ==
  /\ pc = at
  /\ \E resp \in U.responses :
       LET r == GenerateSchemaWithPrompt(resp, errorContext, config.llmProvider) IN
       /\ thrown' = r.thrown
       /\ IF r.ok
          THEN /\ schema' = r.schema
               /\ lastReturned' = r.schema
               /\ printed' = r.schema
               /\ typed' = << >>
               /\ pc' = "Reviewing"
               /\ UNCHANGED <<errorOut, exit>>
          ELSE /\ Fail(r.error)
               /\ UNCHANGED <<schema, lastReturned, printed, typed>>
  /\ request' = NoRequest
  /\ UNCHANGED <<command, hasConfig, config, genCalls, revCalls>>
  /\ UNCHANGED <<fileVars, nameInput, promptError, projectName, idea>>

\* schema = await ai.generateSchema(idea)
GenerateReturns(U) == ModelCallReturns(U, "Generating", CtxGenerate)

\* schema = await ai.reviseSchema(schema, approvalAnswer.response)
ReviseReturns(U) == ModelCallReturns(U, "Revising", CtxRevise)

\* EnterFeedback with the loop regenerating from the idea instead of revising
EnterFeedback_Regenerate(U) ==
  /\ pc = "Reviewing"
  /\ \E input \in U.feedbacks :
       LET v == ValidateResponse(input)
           response == NormalizeResponse(input)
       IN
       /\ typed' = input
       /\ promptError' = v.message
       /\ IF ~v.ok
          THEN UNCHANGED <<pc, exit, revCalls, request, genCalls>>
          ELSE IF IsApproval(response)
          THEN /\ pc' = "Approved"
               /\ exit' = "exit0"
               /\ UNCHANGED <<revCalls, request, genCalls>>
          ELSE /\ genCalls < MaxRevisions
               /\ genCalls' = genCalls + 1
               /\ request' = GenerateRequest(idea)
               /\ pc' = "Generating"
               /\ UNCHANGED <<exit, revCalls>>
  /\ UNCHANGED <<command, hasConfig, config, nameInput, projectName, idea, thrown, errorOut>>
  /\ UNCHANGED <<fileVars, schemaVars>>

\* the response prompt: one submitted input; an approval ends the loop and the
\* run, anything else calls ai.reviseSchema
EnterFeedback(U) ==
  /\ pc = "Reviewing"
  /\ \E input \in U.feedbacks :
       LET v == ValidateResponse(input)
           response == NormalizeResponse(input)
       IN
       /\ typed' = input
       /\ promptError' = v.message
       /\ IF ~v.ok
          THEN UNCHANGED <<pc, exit, revCalls, request>>
          ELSE IF IsApproval(response)
          THEN /\ pc' = "Approved"
               /\ exit' = "exit0"
               /\ UNCHANGED <<revCalls, request>>
          ELSE /\ revCalls < MaxRevisions
               /\ revCalls' = revCalls + 1
               /\ request' = ReviseCall(schema, input)
               /\ pc' = "Revising"
               /\ UNCHANGED exit
  /\ UNCHANGED <<command, hasConfig, config, nameInput, projectName, idea, genCalls, thrown, errorOut>>
  /\ UNCHANGED <<fileVars, schemaVars>>

NextOver(U) ==
  \/ Dispatch
  \/ ReadConfig
  \/ WizardProvider(U)
  \/ WizardApiKey(U)
  \/ EnterProjectName(U)
  \/ EnterIdea(U)
  \/ GenerateReturns(U)
  \/ EnterFeedback(U)
  \/ ReviseReturns(U)

\* ------------------------------------------------ what the environment does

\* configuration files a run may find
KeyedFile(p) == [exists |-> TRUE, content |-> ObjectFile(TRUE, p, TRUE, (p :> "sk-1"))]
AbsentFile == [exists |-> FALSE, content |-> NullFile]

AllFiles ==
  {AbsentFile,
   KeyedFile("gemini"), KeyedFile("openai"), KeyedFile("anthropic"),
   [exists |-> TRUE, content |-> ObjectFile(TRUE, "openai", TRUE, NoKeys)],
   [exists |-> TRUE, content |-> ObjectFile(TRUE, "openai", TRUE, ("gemini" :> "sk-1"))],
   [exists |-> TRUE, content |-> ObjectFile(TRUE, "anthropic", TRUE, ("anthropic" :> ""))],
   [exists |-> TRUE, content |-> ObjectFile(TRUE, "mistral", TRUE, ("mistral" :> "sk-1"))],
   [exists |-> TRUE, content |-> ObjectFile(FALSE, "", TRUE, ("openai" :> "sk-1"))],
   [exists |-> TRUE, content |-> ObjectFile(TRUE, "openai", FALSE, NoKeys)],
   [exists |-> TRUE, content |-> NullFile],
   [exists |-> TRUE, content |-> MalformedFile]}

\* texts typed at the prompts
In_empty == << >>
In_blank == <<" ", " ">>
In_myapp2 == <<"m","y","-","a","p","p","_","2">>
In_myappBang == <<"m","y"," ","a","p","p","!">>
In_paddedName == <<" ","a","p","p","1"," ">>
In_todo == <<"A"," ","t","o","d","o"," ","a","p","p"," ","f","o","r"," ","t","e","a","m","s">>
In_paddedIdea == <<" ","c","l","i","n","i","c","\n">>
In_looksGood == <<"l","o","o","k","s"," ","g","o","o","d">>
In_paddedYes == <<" ","Y","e","s"," ">>
In_looksOkay == <<"L","o","o","k","s"," ","o","k","a","y">>
In_addDueDate == <<"A","d","d"," ","'","d","u","e","D","a","t","e",":","d","a","t","e","'"," ","t","o"," ","t","a","s","k","s">>
In_approveUpper == <<" ","A","P","P","R","O","V","E">>
In_paddedLooksGood == <<"L","O","O","K","S"," ","G","O","O","D"," ">>

\* model replies
Fld(n, t) == [name |-> n, type |-> t]
Key(n, t) == [name |-> n, type |-> t, primaryKey |-> TRUE]
Mdl(n, fs) == [name |-> n, fields |-> fs]

ReplyUsersTasks ==
  [models |-> <<Mdl("users", <<Key("id", "serial"), Fld("email", "varchar")>>),
                Mdl("tasks", <<Key("id", "serial"), Fld("title", "text")>>)>>]
ReplyWithDueDate ==
  [models |-> <<Mdl("users", <<Key("id", "serial"), Fld("email", "varchar")>>),
                Mdl("tasks", <<Key("id", "serial"), Fld("title", "text"), Fld("dueDate", "date")>>)>>]
ReplyNoModels == [models |-> << >>]
ReplyNoFields == [models |-> <<Mdl("users", << >>)>>]
ReplyBadType == [models |-> <<Mdl("users", <<Fld("id", "string")>>)>>]
ReplySecondFieldBad ==
  [models |-> <<Mdl("users", <<Key("id", "serial"), Fld("email", "string")>>)>>]
ReplySecondModelEmpty ==
  [models |-> <<Mdl("users", <<Key("id", "serial")>>), Mdl("tasks", << >>)>>]

\* messages of failures
Msg_noObject == <<"N","o"," ","o","b","j","e","c","t"," ","g","e","n","e","r","a","t","e","d",":"," ","r","e","s","p","o","n","s","e"," ","d","i","d"," ","n","o","t"," ","m","a","t","c","h"," ","s","c","h","e","m","a",".">>
Msg_typeValidation == <<"T","y","p","e"," ","v","a","l","i","d","a","t","i","o","n"," ","f","a","i","l","e","d",":"," ","V","a","l","u","e",":"," ","{","\"","m","o","d","e","l","s","\"",":","[","]",",","\"","s","t","a","t","u","s","\"",":","4","0","1","}",".">>
Msg_reset == <<"r","e","a","d"," ","E","C","O","N","N","R","E","S","E","T">>
Msg_http401 == <<"H","T","T","P"," ","4","0","1">>

\* the universe of the flow's specification: a few inputs of every kind
FlowU ==
  [commands      |-> {"main", "config"},
   files         |-> AllFiles,
   providers     |-> Providers,
   keys          |-> {"", "sk-1"},
   writeOutcomes |-> BOOLEAN,
   names         |-> {In_empty, In_myapp2, In_myappBang, In_paddedName},
   ideas         |-> {In_blank, In_todo, In_paddedIdea},
   feedbacks     |-> {In_empty, In_looksGood, In_paddedYes, In_looksOkay, In_addDueDate},
   responses     |-> {Reply(ReplyUsersTasks, << >>), Reply(ReplyWithDueDate, << >>),
                      Reply(ReplyNoModels, Msg_noObject),
                      Failure(TRUE, Msg_reset), Failure(TRUE, Msg_http401),
                      Failure(FALSE, Msg_reset)}]

Init == InitOver(FlowU)
Next == NextOver(FlowU)
Spec == Init /\ [][Next]_vars

\* ---------------------------------------- focused universes: one rich input

\* the least of everything that still takes every branch of every handler
LeastU ==
  [commands      |-> {"main"},
   files         |-> {AbsentFile, KeyedFile("openai")},
   providers     |-> {"openai"},
   keys          |-> {"sk-1"},
   writeOutcomes |-> {TRUE},
   names         |-> {In_myapp2},
   ideas         |-> {In_blank, In_todo},
   feedbacks     |-> {In_blank, In_looksGood, In_addDueDate},
   responses     |-> {Reply(ReplyUsersTasks, << >>), Failure(TRUE, Msg_reset)}]

\* every feedback of up to MaxFeedbackLen of these characters, and the examples
FeedbackChars == {" ", "y", "Y", "e", "s", "o", "k", "K"}
FeedbackInputs ==
  SeqsUpTo(FeedbackChars, MaxFeedbackLen)
    \cup {In_looksGood, In_paddedYes, In_looksOkay, In_addDueDate, In_approveUpper,
          In_paddedLooksGood}

FeedbackU == [LeastU EXCEPT !.feedbacks = FeedbackInputs]
InitFeedback == InitOver(FeedbackU)
NextFeedback == NextOver(FeedbackU)
SpecFeedback == InitFeedback /\ [][NextFeedback]_vars

\* every failure message of up to MaxMsgParts of these pieces
MsgParts ==
  {Txt401, Txt429, TxtUnauthorized, TxtRateLimit,
   <<"4">>, <<"0">>, <<"0", "1">>, <<"2", "9">>, <<"x">>,
   <<"u","n","a","u","t","h","o","r","i","z","e","d">>,
   <<"R","a","t","e"," ","l","i","m","i","t">>}

MsgInputs == {Concat(ps) : ps \in SeqsUpTo(MsgParts, MaxMsgParts)} \cup {Msg_reset, Msg_http401}

ErrorsU ==
  [LeastU EXCEPT !.responses =
     {Reply(ReplyUsersTasks, << >>)}
       \cup {Failure(isErr, m) : isErr \in BOOLEAN, m \in MsgInputs}
       \cup {Reply(r, m) : r \in {ReplyNoModels, ReplyNoFields, ReplyBadType},
                           m \in {Msg_noObject, Msg_typeValidation}}]
InitErrors == InitOver(ErrorsU)
NextErrors == NextOver(ErrorsU)
SpecErrors == InitErrors /\ [][NextErrors]_vars

\* every project name of up to MaxNameLen of these characters, and the examples
NameInputChars == {"a", "Z", "7", "-", "_", " ", "!"}
NameInputs ==
  SeqsUpTo(NameInputChars, MaxNameLen) \cup {In_myapp2, In_myappBang, In_paddedName}

NamesU == [LeastU EXCEPT !.names = NameInputs, !.ideas = {In_empty, In_blank, In_todo, In_paddedIdea},
                         !.feedbacks = {In_empty, In_blank, In_looksGood, In_addDueDate}]
InitNames == InitOver(NamesU)
NextNames == NextOver(NamesU)
SpecNames == InitNames /\ [][NextNames]_vars

\* model replies: every shape of up to MaxModels models of up to MaxFields
\* fields over one type of the enumeration and one outside it, and every type
\* of the enumeration (and some outside it) in a reply of one field
ShapeFields == {Fld("f", "text"), Fld("f", "string")}
ShapeModels == {Mdl("m", fs) : fs \in SeqsUpTo(ShapeFields, MaxFields)}
OtherTypes == {"string", "number", "TEXT", ""}
ReplyInputs ==
  {[models |-> ms] : ms \in SeqsUpTo(ShapeModels, MaxModels)}
    \cup {[models |-> <<Mdl("m", <<Fld("f", t)>>)>>] : t \in FieldTypes \cup OtherTypes}
    \cup {ReplyUsersTasks, ReplyWithDueDate, ReplySecondFieldBad, ReplySecondModelEmpty}

SchemasU ==
  [LeastU EXCEPT !.responses =
     {Reply(r, IF SchemaOk(r) THEN << >> ELSE Msg_noObject) : r \in ReplyInputs}
       \cup {Failure(TRUE, Msg_reset)}]
InitSchemas == InitOver(SchemasU)
NextSchemas == NextOver(SchemasU)
SpecSchemas == InitSchemas /\ [][NextSchemas]_vars

\* ------------------------------------------------------------------ claims

Phases == {"CollectProjectName", "CollectIdea", "Generating", "Reviewing", "Revising", "Approved"}

\* the steps between positions that the phase order allows (leaving a phase on a
\* failure included)
OrderedSteps ==
  {<<"Start", "ReadConfig">>, <<"Start", "WizardProvider">>,
   <<"WizardProvider", "WizardApiKey">>, <<"WizardApiKey", "ConfigSaved">>,
   <<"WizardApiKey", "Failed">>, <<"ReadConfig", "Failed">>,
   <<"ReadConfig", "CollectProjectName">>, <<"WizardApiKey", "CollectProjectName">>,
   <<"CollectProjectName", "CollectIdea">>,
   <<"CollectIdea", "Generating">>, <<"CollectIdea", "Failed">>,
   <<"Generating", "Reviewing">>, <<"Generating", "Failed">>,
   <<"Reviewing", "Revising">>, <<"Reviewing", "Approved">>,
   <<"Revising", "Reviewing">>, <<"Revising", "Failed">>}

\* a step of the review prompt that submits feedback which is accepted and is
\* not an approval
RevisionRequested ==
  /\ pc = "Reviewing"
  /\ typed' # typed \/ pc' # pc
  /\ ValidateResponse(typed').ok
  /\ ~IsApproval(NormalizeResponse(typed'))

C1_Counts ==
  /\ genCalls <= 1
  /\ request.op = "generate" <=> pc = "Generating"
  /\ request.op = "revise" <=> pc = "Revising"
  /\ pc \in {"Generating", "Reviewing", "Revising", "Approved"} => genCalls = 1
  /\ pc \in {"Start", "ReadConfig", "WizardProvider", "WizardApiKey",
             "CollectProjectName", "CollectIdea", "ConfigSaved"} => genCalls = 0 /\ revCalls = 0
  /\ genCalls = 1 => projectName # << >> /\ idea # << >>
  /\ pc = "Generating" => revCalls = 0

C1_Steps ==
  /\ pc' # pc => <<pc, pc'>> \in OrderedSteps
  /\ genCalls' # genCalls =>
       pc = "CollectIdea" /\ pc' = "Generating" /\ genCalls' = genCalls + 1
  /\ revCalls' # revCalls => pc = "Reviewing" /\ pc' = "Revising"
  /\ pc' = "Revising" /\ pc # "Revising" => revCalls' = revCalls + 1 /\ request'.op = "revise"
  /\ RevisionRequested => revCalls' = revCalls + 1 /\ pc' = "Revising"
  /\ pc = "Reviewing" /\ ~RevisionRequested => revCalls' = revCalls

\* C1: the phases occur only in the order CollectProjectName, CollectIdea,
\* Generating, Reviewing, (Revising, Reviewing)*, Approved: generateSchema is
\* requested once, after a project name and an idea were accepted; reviseSchema
\* is requested once per accepted feedback that is no approval, and only from
\* Reviewing; Approved is entered only from Reviewing.
C1_PhaseOrder == [](C1_Counts) /\ [][C1_Steps]_vars

C1_Witness ==
  pc = "Approved" /\ genCalls = 1 /\ revCalls = 2 /\ typed = In_paddedYes

ApprovalPhrases == {ApproveLooksGood, ApproveYes, ApproveY, ApproveApprove, ApproveOk}

\* a step of the review prompt that submits the feedback typed'
FeedbackSubmitted == pc = "Reviewing" /\ (typed' # typed \/ pc' # pc \/ promptError' # promptError)

\* C2 as stated: every non-empty feedback approves if, trimmed and lower-cased,
\* it is one of the five phrases, and otherwise causes a reviseSchema call.
C2_AsStated ==
  [][FeedbackSubmitted /\ typed' # << >> =>
       IF ToLowerCase(Trim(typed')) \in ApprovalPhrases
       THEN pc' = "Approved"
       ELSE pc' = "Revising" /\ revCalls' = revCalls + 1]_vars

\* C2, amended: every feedback that is non-empty once trimmed approves if and
\* only if, trimmed and lower-cased, it is one of the five phrases, and
\* otherwise causes a reviseSchema call; feedback of white space only does
\* neither (the prompt is repeated).
C2_Approval ==
  [][FeedbackSubmitted =>
       IF Trim(typed') = << >>
       THEN pc' = "Reviewing" /\ revCalls' = revCalls /\ promptError' = TxtFeedbackEmpty
       ELSE IF ToLowerCase(Trim(typed')) \in ApprovalPhrases
       THEN pc' = "Approved" /\ revCalls' = revCalls
       ELSE pc' = "Revising" /\ revCalls' = revCalls + 1 /\ request'.op = "revise"]_vars

C2_Witness ==
  /\ pc = "Approved"
  /\ typed = <<" ", "o", "K">>
  /\ revCalls = 1

C3_Failed ==
  thrown.cause # "none" =>
    /\ pc = "Failed"
    /\ exit = "exit1"
    /\ errorOut = MapError(thrown, IF revCalls = 0 THEN CtxGenerate ELSE CtxRevise,
                           config.llmProvider)
    /\ Len(errorOut) > 0

C3_FailStep ==
  /\ pc = "Failed" => FALSE
  /\ pc \in {"Generating", "Revising"} /\ pc' # "Reviewing" =>
       /\ pc' = "Failed"
       /\ thrown'.cause # "none"
       /\ genCalls' = genCalls
       /\ revCalls' = revCalls

\* C3: a failed generateSchema or reviseSchema ends the run: the failure is
\* followed by no step at all (no prompt, no request, no retry, no Approved),
\* the process has exited with status 1 and the error's message was printed.
C3_FailureIsFatal == [](C3_Failed) /\ [][C3_FailStep]_vars

C3_Witness ==
  pc = "Failed" /\ thrown.cause = "transport" /\ revCalls = 1 /\ schema = ParseSchema(ReplyUsersTasks)

\* C4: the held schema is the result of the latest successful model call; a
\* reviseSchema call is given that schema and the feedback as typed; a
\* successful revision replaces the held schema in full; the schema held at
\* Approved is the last one returned, which is the one last printed.
C4_HeldSchema ==
  /\ pc \in {"Reviewing", "Revising", "Approved"} =>
       schema = lastReturned /\ printed = schema /\ schema # NoSchema
  /\ pc = "Revising" =>
       request = [op |-> "revise", idea |-> << >>, schema |-> lastReturned, request |-> typed]

C4_Witness ==
  /\ pc = "Revising"
  /\ revCalls = 2
  /\ schema = ParseSchema(ReplyWithDueDate)
  /\ request.request = In_looksOkay

\* the three messages generateSchemaWithPrompt can throw
IsAuthMessage(t) == t = TxtAuthHead \o ProviderText(config.llmProvider) \o TxtAuthTail
IsRateLimitedMessage(t) == t = TxtRateLimited
FailedContext == IF revCalls = 0 THEN CtxGenerate ELSE CtxRevise
IsGenericMessage(t, original) == t = TxtFailedTo \o FailedContext \o TxtColon \o original

\* C5 as stated: the error is chosen by the failure message: "401" gives the
\* invalid-key message, "429" the rate-limited message, any other message the
\* error naming the operation and containing the original message.
C5_AsStated ==
  thrown.cause = "transport" /\ thrown.isError =>
    /\ Includes(thrown.message, Txt401) => IsAuthMessage(errorOut)
    /\ Includes(thrown.message, Txt429) => IsRateLimitedMessage(errorOut)
    /\ ~Includes(thrown.message, Txt401) /\ ~Includes(thrown.message, Txt429) =>
         IsGenericMessage(errorOut, thrown.message)

LooksUnauthorized(m) == Includes(m, Txt401) \/ Includes(m, TxtUnauthorized)
LooksRateLimited(m) == Includes(m, Txt429) \/ Includes(m, TxtRateLimit)

\* C5, amended: when the model request fails with an Error, a message containing
\* "401" or "Unauthorized" gives the invalid-key message telling the user to
\* re-run setup; otherwise a message containing "429" or "rate limit" gives the
\* rate-limited message telling the user to try again; any other message, and
\* any thrown value that is not an Error, gives an error that names the
\* operation ("generate schema" or "revise schema") and contains the original
\* message.
C5_ErrorMapping ==
  thrown.cause = "transport" =>
    /\ pc = "Failed"
    /\ IF thrown.isError /\ LooksUnauthorized(thrown.message)
       THEN /\ IsAuthMessage(errorOut)
            /\ Includes(errorOut, TxtBoilrConfig)
       ELSE IF thrown.isError /\ LooksRateLimited(thrown.message)
       THEN /\ IsRateLimitedMessage(errorOut)
            /\ Includes(errorOut, <<"t","r","y"," ","a","g","a","i","n">>)
       ELSE /\ IsGenericMessage(errorOut, thrown.message)
            /\ Includes(errorOut, FailedContext)
            /\ Includes(errorOut, thrown.message)

C5_Witness ==
  /\ pc = "Failed"
  /\ thrown.cause = "transport"
  /\ thrown.isError
  /\ thrown.message = Txt429 \o Txt401
  /\ revCalls = 1

\* C6: a ValidationFailure (the reply does not match the AbstractSchema shape)
\* raised during generateSchema or reviseSchema reaches the top-level handler as
\* a ValidationFailure: it is never reported as AuthFailure, RateLimited or
\* GenericProviderFailure, whatever its message contains.
C6_ValidationKept ==
  thrown.cause = "validation" =>
    /\ ~IsAuthMessage(errorOut)
    /\ ~IsRateLimitedMessage(errorOut)
    /\ ~IsGenericMessage(errorOut, thrown.message)

\* the credential of the selected provider is absent or empty
CredentialAbsent(cfg) ==
  cfg.llmProvider \notin DOMAIN cfg.apiKeys \/ cfg.apiKeys[cfg.llmProvider] = ""

ProviderTitle(p) ==
  CASE p = "gemini" -> TxtGemini [] p = "openai" -> TxtOpenAI [] p = "anthropic" -> TxtAnthropic

\* C7: with a Config whose selected provider (one of the three) has no
\* credential in apiKeys, absent or empty, constructing the adapter fails with
\* the credential-missing error telling the user to re-run setup, and no model
\* request is issued at any point of the run.
C7_NoCredentialNoRequest ==
  hasConfig /\ config.llmProvider \in Providers /\ CredentialAbsent(config) =>
    /\ genCalls = 0
    /\ revCalls = 0
    /\ request = NoRequest
    /\ pc \in {"CollectProjectName", "CollectIdea", "Failed"}
    /\ idea # << >> => pc = "Failed"
    /\ pc = "Failed" =>
         /\ errorOut = ProviderTitle(config.llmProvider) \o TxtKeyNotFound
         /\ Includes(errorOut, TxtBoilrConfig)
         /\ exit = "exit1"

C7_Witness ==
  /\ pc = "Failed"
  /\ hasConfig
  /\ config = [llmProvider |-> "anthropic", apiKeys |-> ("anthropic" :> "")]
  /\ sawConfig
  /\ idea # << >>

C8_Counts ==
  /\ reads <= 1
  /\ writes <= 1
  /\ command = "config" =>
       /\ reads = 0
       /\ pc \notin Phases
       /\ ~hasConfig
       /\ pc = "ConfigSaved" => writes = 1 /\ fileExists
  /\ command = "main" /\ pc # "Start" =>
       IF sawConfig THEN writes = 0 /\ wizProvider = "" ELSE reads = 0
  /\ pc \in Phases =>
       /\ hasConfig
       /\ IF sawConfig THEN reads = 1 /\ writes = 0 ELSE reads = 0 /\ writes = 1
  /\ hasConfig => command = "main" /\ reads + writes = 1

C8_Steps ==
  /\ pc = "Start" /\ command = "main" =>
       /\ sawConfig' = fileExists
       /\ pc' = IF fileExists THEN "ReadConfig" ELSE "WizardProvider"
  /\ pc = "Start" /\ command = "config" => pc' = "WizardProvider"
  /\ reads' # reads => pc = "ReadConfig" /\ reads' = reads + 1
  /\ writes' # writes => pc = "WizardApiKey" /\ writes' = writes + 1

\* C8: the configuration file is read at most once and written at most once in
\* a run: the default command runs the wizard (one write, no read) exactly when
\* no configuration file exists and otherwise loads the file (one read, no
\* write); the revision loop starts only once a Config has been obtained; the
\* config subcommand runs the wizard unconditionally (one write).
C8_ConfigOnce == [](C8_Counts) /\ [][C8_Steps]_vars

C8_Witness ==
  /\ pc = "Approved"
  /\ command = "main"
  /\ ~sawConfig
  /\ writes = 1
  /\ reads = 0
  /\ fileExists

\* the characters the claim allows in a project name
AllowedNameChars ==
  {"a","b","c","d","e","f","g","h","i","j","k","l","m","n","o","p","q","r","s","t","u","v","w","x","y","z",
   "A","B","C","D","E","F","G","H","I","J","K","L","M","N","O","P","Q","R","S","T","U","V","W","X","Y","Z",
   "0","1","2","3","4","5","6","7","8","9","-","_"}

OnlyAllowedChars(s) == \A i \in 1..Len(s) : s[i] \in AllowedNameChars

\* C9 as stated: a project name containing any character other than letters,
\* digits, hyphen and underscore is never accepted, and the project name
\* reported at Approved is non-empty, of those characters only, and the accepted
\* input unchanged.
C9_AsStated ==
  pc = "Approved" =>
    /\ OnlyAllowedChars(nameInput)
    /\ projectName # << >>
    /\ OnlyAllowedChars(projectName)
    /\ projectName = nameInput

C9_Names ==
  pc \notin {"Start", "ReadConfig", "WizardProvider", "WizardApiKey", "CollectProjectName",
             "ConfigSaved"} /\ hasConfig =>
    /\ projectName # << >>
    /\ OnlyAllowedChars(projectName)
    /\ projectName = Trim(nameInput)

\* the input a step of the projectName prompt submitted
NameSubmitted == IF pc' = pc THEN typed' ELSE nameInput'

C9_Steps ==
  /\ pc = "CollectProjectName" =>
       IF Trim(NameSubmitted) = << >> \/ ~OnlyAllowedChars(Trim(NameSubmitted))
       THEN /\ promptError' # << >>
            /\ UNCHANGED <<pc, genCalls, revCalls, request, exit, errorOut, projectName, nameInput>>
       ELSE pc' = "CollectIdea" /\ projectName' = Trim(nameInput')
  /\ pc \in {"CollectIdea", "Reviewing"} =>
       IF Trim(typed') = << >>
       THEN /\ promptError' # << >>
            /\ UNCHANGED <<pc, genCalls, revCalls, request, exit, errorOut>>
       ELSE pc' # pc
  /\ pc # "CollectProjectName" => UNCHANGED <<projectName, nameInput>>

\* C9, amended: input that is invalid once trimmed (an empty or whitespace-only
\* project name, idea or feedback, or a project name that, trimmed, contains a
\* character other than letters, digits, hyphen and underscore) only repeats
\* the prompt: no change of phase, no model request, no error exit.  So the
\* project name reported at Approved is non-empty, of those characters only,
\* and is the accepted input with its surrounding white space trimmed.
C9_InvalidInputRepeats == [](C9_Names) /\ [][C9_Steps]_vars

C9_Witness ==
  /\ pc = "Approved"
  /\ nameInput = <<" ", "Z">>
  /\ projectName = <<"Z">>

\* the thirteen field types of the AbstractSchema
ThirteenTypes ==
  {"serial", "integer", "bigint", "text", "varchar", "boolean", "date", "timestamp",
   "decimal", "float", "json", "jsonb", "uuid"}

WellFormed(sch) ==
  /\ Len(sch.models) >= 1
  /\ \A i \in 1..Len(sch.models) :
       /\ Len(sch.models[i].fields) >= 1
       /\ \A j \in 1..Len(sch.models[i].fields) : sch.models[i].fields[j].type \in ThirteenTypes

\* C10: every schema the loop holds, prints, passes to reviseSchema or hands
\* off at Approved has at least one model, at least one field in every model,
\* and only field types of the thirteen; a reply that violates one of these is
\* rejected and never becomes the held schema.
C10_SchemasWellFormed ==
  /\ Cardinality(ThirteenTypes) = 13
  /\ pc \in {"Reviewing", "Revising", "Approved"} => WellFormed(schema) /\ WellFormed(printed)
  /\ schema # NoSchema => WellFormed(schema)
  /\ printed # NoSchema => WellFormed(printed)
  /\ request.op = "revise" => WellFormed(request.schema)
  /\ thrown.cause = "validation" => pc = "Failed" /\ (revCalls = 0 => schema = NoSchema)

C10_Witness ==
  /\ pc = "Approved"
  /\ revCalls = 1
  /\ Len(schema.models) = 2
  /\ schema.models[2].fields[1].type = "text"

\* the credential of the selected provider is present in apiKeys
SelectedCredentialPresent(cfg) ==
  /\ cfg.llmProvider \in DOMAIN cfg.apiKeys
  /\ cfg.apiKeys[cfg.llmProvider] # ""

\* a parsed file the claim says readConfig rejects
C11_Rejectable(content) ==
  \/ content.kind # "object"
  \/ ~content.hasProvider
  \/ ~content.hasApiKeys
  \/ content.llmProvider \notin {"gemini", "openai", "anthropic"}

\* C11: every Config that readConfig or runFirstRunWizard returns, and so
\* every Config the main flow receives, has llmProvider among gemini, openai
\* and anthropic and the credential of that provider present in apiKeys, so
\* that constructing the model-call adapter from it succeeds; and a file whose
\* provider is not one of the three, or whose parsed content has no provider
\* field or no credential map, makes readConfig fail.
C11_ConfigValid ==
  /\ hasConfig =>
       /\ config.llmProvider \in {"gemini", "openai", "anthropic"}
       /\ SelectedCredentialPresent(config)
       /\ InitializeModel(config).ok
  /\ pc = "ConfigSaved" =>
       /\ fileContent.llmProvider \in {"gemini", "openai", "anthropic"}
       /\ SelectedCredentialPresent(fileContent)
  /\ (command = "main" /\ sawConfig /\ reads = 1 /\ C11_Rejectable(fileContent)) =>
       /\ pc = "Failed"
       /\ ~hasConfig

====
